---- MODULE Spec2Model ----
(***************************************************************************)
(* SmartCook browser client.                                               *)
(*                                                                         *)
(* Two alternate versions of the same page script are modelled:            *)
(*   "app"    : src/unnamed/part_000 (class RecipeRecommender, the         *)
(*              DOMContentLoaded handler with its click and keypress       *)
(*              listeners, displayResults)                                 *)
(*   "script" : src/script.js (suggestRecipes, displayResults, the         *)
(*              DOMContentLoaded handler)                                  *)
(* A page runs one of them (variable variant).  The remote service is the  *)
(* environment: every request in flight is answered, at any later time,    *)
(* by a transport failure or by an HTTP response chosen from a small set.  *)
(*                                                                         *)
(* Strings of the source that hold non-ASCII characters (emoji, accents)   *)
(* are written here without them.  A text is a sequence of string pieces,  *)
(* the concatenation a template literal performs is \o.                    *)
(* An optional JavaScript value is a sequence of length 0 (undefined) or   *)
(* 1 (the value).                                                          *)
(***************************************************************************)
EXTENDS Integers, Sequences, FiniteSets, TLC

\* Asynchronous calls (handlers and direct calls of the recommender) that are
\* under way at the same time.
MaxTasks == 2

---------------------------------------------------------------------------
(* Values *)

None == <<>>
Some(v) == <<v>>
IsSome(o) == Len(o) = 1
Get(o) == o[1]

Whitespace == {" "}

\* What the ingredients field may hold when an event is handled.
InputValues == {<<>>, <<" ">>, <<" ", " ">>, <<"a">>, <<" ", "b", " ">>}

\* String.prototype.trim: drops the leading and the trailing whitespace.
RECURSIVE TrimLeft(_)
TrimLeft(s) ==
    IF s # <<>> /\ Head(s) \in Whitespace THEN TrimLeft(Tail(s)) ELSE s

RECURSIVE TrimRight(_)
TrimRight(s) ==
    IF s # <<>> /\ s[Len(s)] \in Whitespace
    THEN TrimRight(SubSeq(s, 1, Len(s) - 1)) ELSE s

TrimNoop(s) == s
Trim(s) == TrimRight(TrimLeft(s))

\* JavaScript truthiness of a string: the empty string is falsy.
Truthy(s) == s # <<>>

\* All-whitespace (or empty) text, as the claims speak of it.
Blank(s) == \A i \in 1..Len(s) : s[i] \in Whitespace

---------------------------------------------------------------------------
(* HTTP *)

Statuses == {200, 500}
StatusText(n) == IF n = 200 THEN "OK" ELSE "Internal Server Error"
StatusStr(n) == IF n = 200 THEN "200" ELSE "500"
\* Response.ok
ResponseOk(r) == r.status >= 200 /\ r.status <= 299

\* What fetch rejects with, and what response.json() rejects with.
FetchFailure == <<"Failed to fetch">>
JsonFailure == <<"Unexpected token in JSON">>

\* A response: fetch rejected (failed), or an HTTP status and a body that is
\* JSON (parsed) with the value data, or not.
Response(failed, status, parsed, data) ==
    [failed |-> failed, status |-> status, parsed |-> parsed, data |-> data]

NoData == [none |-> TRUE]

\* /health: no response; a 500 page that is not JSON; every body with a 200
\* status; the ready body with a 500 status.
HealthData == [status : {"ok", "pending"}, models_loaded : BOOLEAN]
HealthResponses ==
    {Response(TRUE, 200, FALSE, NoData), Response(FALSE, 500, FALSE, NoData),
     Response(FALSE, 500, TRUE, [status |-> "ok", models_loaded |-> TRUE])}
    \cup {Response(FALSE, 200, TRUE, d) : d \in HealthData}

\* /download-models: no response; a body that is not JSON, with either
\* status; success with no error field; failure with no, an empty and a
\* non-empty error field; with a 500 status, the success body and the
\* failure body that names its reason.
DownloadData ==
    {[success |-> TRUE, error |-> None]}
    \cup [success : {FALSE}, error : {None, Some(""), Some("quota exceeded")}]
DownloadResponses ==
    {Response(TRUE, 200, FALSE, NoData), Response(FALSE, 200, FALSE, NoData),
     Response(FALSE, 500, FALSE, NoData),
     Response(FALSE, 500, TRUE, [success |-> TRUE, error |-> None]),
     Response(FALSE, 500, TRUE, [success |-> FALSE, error |-> Some("quota exceeded")])}
    \cup {Response(FALSE, 200, TRUE, d) : d \in DownloadData}

\* The response is a /health body {status: "ok", models_loaded: true}.
ReportsReady(r) ==
    ~r.failed /\ r.parsed /\ r.data.status = "ok" /\ r.data.models_loaded = TRUE

\* The response is a /download-models body {success: true}.
ReportsSuccess(r) == ~r.failed /\ r.parsed /\ r.data.success = TRUE

---------------------------------------------------------------------------
(* Recipes, as the service sends them.  Every field is optional on the     *)
(* wire; an entry of the list may also be null.                            *)

Recipe(title, match, used_ingredients, missing_ingredients, used, missing, directions, link) ==
    [title |-> title, match |-> match,
     used_ingredients |-> used_ingredients,
     missing_ingredients |-> missing_ingredients,
     used |-> used, missing |-> missing,
     directions |-> directions, link |-> link]

NullRecipe == [null |-> TRUE]
IsNull(r) == "null" \in DOMAIN r

\* A service speaking the field names part_000 reads.
RecipeApp ==
    Recipe(Some("Bolo"), Some(87), Some(<<"egg", "flour">>), Some(<<"sugar">>),
           None, None, Some("Misture e asse."), Some("https://example.org/bolo"))
\* A service speaking the field names script.js reads, optional fields absent.
RecipeScript ==
    Recipe(Some("Omelete"), Some(40), None, None, Some(<<"egg">>), Some(<<>>),
           None, None)

\* A service sending both sets of field names, a match above 100 and an
\* empty directions text.
RecipeBoth ==
    Recipe(Some("Pudim"), Some(150), Some(<<"milk">>), Some(<<"caramel">>),
           Some(<<"milk">>), Some(<<"caramel">>), Some(""), None)
\* A service speaking the field names of the RecipeResult of the
\* specification: neither script reads matchPercent, usedIngredients or
\* missingIngredients, so the fields they do read are absent.
RecipeSpecNamed ==
    [title |-> Some("Bolo"), match |-> None,
     used_ingredients |-> None, missing_ingredients |-> None,
     used |-> None, missing |-> None, directions |-> None, link |-> None,
     matchPercent |-> Some(87), usedIngredients |-> Some(<<"egg", "flour">>),
     missingIngredients |-> Some(<<"sugar">>)]

\* The recipes field of a /suggest body.
RecipeLists ==
    {None, Some(<<>>), Some(<<RecipeApp>>), Some(<<RecipeScript>>),
     Some(<<RecipeScript, RecipeApp>>), Some(<<RecipeScript, RecipeBoth>>),
     Some(<<RecipeBoth, NullRecipe>>), Some(<<RecipeSpecNamed>>)}

SuggestResponses ==
    {Response(TRUE, 200, FALSE, NoData), Response(FALSE, 200, FALSE, NoData),
     Response(FALSE, 500, FALSE, NoData)}
    \cup {Response(FALSE, 200, TRUE, [recipes |-> l]) : l \in RecipeLists}

---------------------------------------------------------------------------
(* The results area: a sequence of nodes.                                  *)

P(cls, text) == [cls |-> cls, text |-> text]
Li(cls, text) == [cls |-> cls, text |-> text]

\* What the page's markup holds before any script has written to it.
StaticMarkup == <<P("static", <<>>)>>

InitLoadingNode == P("loading", <<"Inicializando sistema...">>)
ReadyNode == P("success", <<"Sistema pronto! Digite seus ingredientes acima.">>)
UnavailableNode(msg) == P("error", <<"Sistema indisponivel: ">> \o msg)
AppLoadingNode == P("loading", <<"Analisando ingredientes...">>)
AppErrorNode(msg) == P("error", <<"Erro: ">> \o msg)
ScriptLoadingNode == P("loading", <<"Buscando receitas...">>)
ScriptErrorNode(msg) == P("error", <<"Erro ao buscar receitas: ">> \o msg)
NoResultsNode ==
    P("no-results", <<"Nenhuma receita encontrada. Tente outros ingredientes!">>)

IsCard(n) == n.cls = "recipe-card"
IsError(n) == n.cls = "error"

\* `${x}` of an optional text: the text, or "undefined".
Interp(o) == IF IsSome(o) THEN Get(o) ELSE "undefined"
\* cond ? block : '' on an optional text: absent and empty are falsy.
Block(o) == IF IsSome(o) /\ Get(o) # "" THEN o ELSE None

MapLi(cls, prefix, items) ==
    [i \in 1..Len(items) |-> Li(cls, prefix \o <<items[i]>>)]

\* list?.map(...).join('') || fallback : an absent list and an empty list
\* both give the fallback item.
ListOrFallback(cls, list, fallback) ==
    IF IsSome(list) /\ Len(Get(list)) > 0
    THEN MapLi(cls, <<>>, Get(list))
    ELSE <<Li("", <<fallback>>)>>

Card(title, num, suffix, have, buy, directions, link) ==
    [cls |-> "recipe-card", title |-> title,
     match |-> [num |-> num, suffix |-> suffix],
     have |-> have, buy |-> buy, directions |-> directions, link |-> link]

CardAppSwapped(r) ==
    Card(Interp(r.title), r.match, "% compativel",
         ListOrFallback("ingredient has", r.missing_ingredients,
                        "Nenhum ingrediente principal"),
         ListOrFallback("ingredient missing", r.used_ingredients, "Nada!"),
         Block(r.directions), Block(r.link))

CardApp(r) ==
    Card(Interp(r.title), r.match, "% compativel",
         ListOrFallback("ingredient has", r.used_ingredients,
                        "Nenhum ingrediente principal"),
         ListOrFallback("ingredient missing", r.missing_ingredients, "Nada!"),
         Block(r.directions), Block(r.link))

CardScript(r) ==
    Card(Interp(r.title), r.match, "%",
         MapLi("ingredient has", <<"v ">>, Get(r.used)),
         MapLi("ingredient missing", <<"x ">>, Get(r.missing)),
         Block(r.directions), Block(r.link))

Rendered(html) == [thrown |-> FALSE, html |-> html, msg |-> <<>>]
Thrown(html, msg) == [thrown |-> TRUE, html |-> html, msg |-> msg]

NullAccess == <<"Cannot read properties of null">>
UndefinedAccess == <<"Cannot read properties of undefined">>

displayResultsAppNoEmptyCheck(recipes, prev) ==
    IF ~IsSome(recipes) THEN Rendered(<<NoResultsNode>>)
    ELSE LET rs == Get(recipes)
         IN  IF \E i \in 1..Len(rs) : IsNull(rs[i])
             THEN Thrown(prev, NullAccess)
             ELSE Rendered([i \in 1..Len(rs) |-> CardApp(rs[i])])

\* displayResults of part_000 on the value of data.recipes, the results area
\* holding prev: the markup is built whole, then assigned.
displayResultsApp(recipes, prev) ==
    IF ~IsSome(recipes) \/ Len(Get(recipes)) = 0
    THEN Rendered(<<NoResultsNode>>)
    ELSE LET rs == Get(recipes)
         IN  IF \E i \in 1..Len(rs) : IsNull(rs[i])
             THEN Thrown(prev, NullAccess)
             ELSE Rendered([i \in 1..Len(rs) |-> CardApp(rs[i])])

\* Whether script.js can build the card of r.
ScriptCardFails(r) == IsNull(r) \/ ~IsSome(r.used) \/ ~IsSome(r.missing)

RECURSIVE AppendCardsScript(_, _)
\* recipes.forEach of script.js: one card appended per recipe, up to the
\* first recipe whose card cannot be built.
AppendCardsScript(rs, html) ==
    IF rs = <<>> THEN Rendered(html)
    ELSE IF ScriptCardFails(Head(rs))
         THEN Thrown(html, IF IsNull(Head(rs)) THEN NullAccess ELSE UndefinedAccess)
         ELSE AppendCardsScript(Tail(rs), Append(html, CardScript(Head(rs))))

displayResultsScriptNoClear(recipes, prev) ==
    IF ~IsSome(recipes) THEN Thrown(prev, UndefinedAccess)
    ELSE IF Len(Get(recipes)) = 0 THEN Rendered(<<NoResultsNode>>)
    ELSE AppendCardsScript(Get(recipes), prev)

\* displayResults of script.js: the area is cleared first.
displayResultsScript(recipes, prev) ==
    IF ~IsSome(recipes) THEN Thrown(<<>>, UndefinedAccess)
    ELSE IF Len(Get(recipes)) = 0 THEN Rendered(<<NoResultsNode>>)
    ELSE AppendCardsScript(Get(recipes), <<>>)

---------------------------------------------------------------------------
(* RecipeRecommender: what init() and suggest() make of a response.        *)

Return(value) == [step |-> "return", msg |-> <<>>, value |-> value]
Throw(msg) == [step |-> "throw", msg |-> msg, value |-> None]
Download == [step |-> "download", msg |-> <<>>, value |-> None]

HealthReadyStatusOnly(data) == data.status = "ok"

HealthReadyTypo(data) == data.status = "OK" /\ data.models_loaded

\* data.status === 'ok' && data.models_loaded
HealthReady(data) == data.status = "ok" /\ data.models_loaded

\* init(), from the /health response to the return, the throw or the
\* /download-models request.  response.ok is not looked at.
InitOnHealth(r) ==
    IF r.failed THEN Throw(FetchFailure)
    ELSE IF ~r.parsed THEN Throw(JsonFailure)
    ELSE IF HealthReady(r.data) THEN Return(None)
    ELSE Download

DownloadFallback == "Erro desconhecido ao baixar modelos"

DownloadErrorMessageGeneric(data) == <<DownloadFallback>>

\* data.error || "Erro desconhecido ao baixar modelos"
DownloadErrorMessage(data) ==
    IF IsSome(data.error) /\ Get(data.error) # ""
    THEN <<Get(data.error)>> ELSE <<DownloadFallback>>

InitOnDownloadRetry(r) ==
    IF r.failed THEN Throw(FetchFailure)
    ELSE IF ~ResponseOk(r) THEN Download
    ELSE IF ~r.parsed THEN Throw(JsonFailure)
    ELSE IF r.data.success THEN Return(None)
    ELSE Throw(DownloadErrorMessage(r.data))

InitOnDownloadInverted(r) ==
    IF r.failed THEN Throw(FetchFailure)
    ELSE IF ~ResponseOk(r)
         THEN Throw(<<"Erro ao baixar modelos: ", StatusText(r.status)>>)
    ELSE IF ~r.parsed THEN Throw(JsonFailure)
    ELSE IF ~r.data.success THEN Return(None)
    ELSE Throw(DownloadErrorMessage(r.data))

\* init(), from the /download-models response to the return or the throw.
InitOnDownload(r) ==
    IF r.failed THEN Throw(FetchFailure)
    ELSE IF ~ResponseOk(r)
         THEN Throw(<<"Erro ao baixar modelos: ", StatusText(r.status)>>)
    ELSE IF ~r.parsed THEN Throw(JsonFailure)
    ELSE IF r.data.success THEN Return(None)
    ELSE Throw(DownloadErrorMessage(r.data))

SuggestOnResponseNoStatusCheck(r) ==
    IF r.failed THEN Throw(FetchFailure)
    ELSE IF ~r.parsed THEN Throw(JsonFailure)
    ELSE Return(r.data.recipes)

\* suggest(), from the /suggest response to the return of data.recipes or
\* the throw.
SuggestOnResponse(r) ==
    IF r.failed THEN Throw(FetchFailure)
    ELSE IF ~ResponseOk(r)
         THEN Throw(<<"HTTP ", StatusStr(r.status), ": ", StatusText(r.status)>>)
    ELSE IF ~r.parsed THEN Throw(JsonFailure)
    ELSE Return(r.data.recipes)

\* suggestRecipes of script.js, from the /suggest response to data.recipes or
\* the throw.
ScriptOnResponse(r) ==
    IF r.failed THEN Throw(FetchFailure)
    ELSE IF ~ResponseOk(r) THEN Throw(<<"Erro ao buscar receitas">>)
    ELSE IF ~r.parsed THEN Throw(JsonFailure)
    ELSE Return(r.data.recipes)

---------------------------------------------------------------------------
(* State *)

VARIABLES
    variant,             \* "app" (part_000) or "script" (script.js)
    loadModelsDefined,   \* whether the page's global scope holds a loadModels
    loaded,              \* the DOMContentLoaded handler: "no", "running",
                         \* "ok" (ran to its end), "failed" (init() or
                         \* loadModels() threw)
    initialized,         \* RecipeRecommender.initialized
    tasks,               \* the asynchronous calls under way, by slot
    lastDone,            \* the call that completed last
    net,                 \* the requests in flight
    results,             \* the children of #results
    buttonDisabled,      \* #suggest-btn .disabled
    buttonText,          \* #suggest-btn .textContent
    listening,           \* the click (and keypress) listener is registered
    alertOpen,           \* an alert() is on screen; it blocks the page
    sawHealthReady,      \* a /health response has reported ok with models
    sawDownloadSuccess,  \* a /download-models response has reported success
    newest               \* the slot of the submission made last; 0 once no
                         \* submission is under way

vars == <<variant, loadModelsDefined, loaded, initialized, tasks, lastDone, net,
          results, buttonDisabled, buttonText, listening, alertOpen,
          sawHealthReady, sawDownloadSuccess, newest>>

page == <<results, buttonDisabled, buttonText, listening>>
env == <<variant, loadModelsDefined>>
seen == <<sawHealthReady, sawDownloadSuccess>>

\* kind: "load" (the DOMContentLoaded handler of part_000), "click" (its
\* click handler), "init" and "suggest" (a direct call of the method),
\* "script" (suggestRecipes of script.js); "idle" for a free slot.
\* query: the ingredients the call submits (<<>> for "load" and "init").
\* pc: the request the call awaits ("/health", "/download-models",
\* "/suggest"); "done" once it has completed.
\* sent: the requests the call has issued, in order.
Task(kind, query) ==
    [kind |-> kind, query |-> query, pc |-> "start", result |-> "pending",
     msg |-> <<>>, sent |-> <<>>]

Idle == Task("idle", <<>>)

Request(owner, url, method, body) ==
    [owner |-> owner, url |-> url, method |-> method, body |-> body]

googleDriveUrl == <<"https://drive.google.com/drive/folders/...">>

Fetching(task, url) == [task EXCEPT !.pc = url, !.sent = Append(@, url)]
Finished(task, result, msg) ==
    [task EXCEPT !.pc = "done", !.result = result, !.msg = msg]

Slots == 1..MaxTasks
Live(t) == tasks[t].kind # "idle"
Awaiting(t, url) == Live(t) /\ tasks[t].pc = url
InFlight(t, url) == {q \in net : q.owner = t /\ q.url = url}

FreeSlots == {t \in Slots : ~Live(t)}
CanSpawn == FreeSlots # {}
\* The slot a new call takes.
NewSlot == CHOOSE t \in FreeSlots : \A u \in FreeSlots : t <= u
Spawn(kind, query) == [tasks EXCEPT ![NewSlot] = Task(kind, query)]

\* A submission of the page (a run of the click handler or of suggestRecipes)
\* is under way.
SubmissionLive(ts) == \E u \in Slots : ts[u].kind \in {"click", "script"}
\* newest once a response has been handled.
NewestAfter == IF SubmissionLive(tasks') THEN newest ELSE 0

\* The page before DOMContentLoaded, the recommender constructed.  The page's
\* markup is no part of the sources: the button may or may not start
\* disabled, and so may the page define a global loadModels for script.js.
Init ==
    /\ variant \in {"app", "script"}
    /\ loadModelsDefined \in (IF variant = "script" THEN BOOLEAN ELSE {FALSE})
    /\ loaded = "no"
    /\ initialized = FALSE
    /\ tasks = [t \in Slots |-> Idle]
    /\ lastDone = Idle
    /\ net = {}
    /\ results = StaticMarkup
    /\ buttonDisabled \in BOOLEAN
    /\ buttonText = "(markup)"
    /\ listening = FALSE
    /\ alertOpen = FALSE
    /\ sawHealthReady = FALSE
    /\ sawDownloadSuccess = FALSE
    /\ newest = 0

---------------------------------------------------------------------------
(* What the handlers of part_000 write to the page.                        *)

\* The click handler, before it calls suggest.
SubmitStart ==
    [disabled |-> TRUE, text |-> "Buscando...", results |-> <<AppLoadingNode>>]

ClickFinallyMissing == [disabled |-> buttonDisabled, text |-> buttonText]

\* The finally block of the click handler.
ClickFinally == [disabled |-> FALSE, text |-> "Sugerir Receitas"]

\* The DOMContentLoaded handler, after init() has returned.
LoadSucceeded == [disabled |-> FALSE, results |-> <<ReadyNode>>]

\* The catch block of the DOMContentLoaded handler.
LoadFailed(msg) == [disabled |-> TRUE, results |-> <<UnavailableNode(msg)>>]

---------------------------------------------------------------------------
(* Continuations.  ts holds the tasks and nt the requests in flight when   *)
(* the awaited promise settles; t is the task resumed.                     *)

\* Task t completes: its slot is freed and its record kept as lastDone.
Complete(ts, nt, t, result, msg) ==
    /\ tasks' = [ts EXCEPT ![t] = Idle]
    /\ lastDone' = Finished(ts[t], result, msg)
    /\ net' = nt

\* The catch and finally blocks of the click handler.
ClickCaught(ts, nt, t, msg) ==
    /\ Complete(ts, nt, t, "error", msg)
    /\ results' = <<AppErrorNode(msg)>>
    /\ buttonDisabled' = ClickFinally.disabled
    /\ buttonText' = ClickFinally.text
    /\ UNCHANGED listening

\* fetch(`${this.apiUrl}/health`) of init()
SendHealth(ts, nt, t) ==
    /\ tasks' = [ts EXCEPT ![t] = Fetching(@, "/health")]
    /\ net' = nt \cup {Request(t, "/health", "GET", <<>>)}
    /\ UNCHANGED lastDone

SendDownloadGuarded(ts, nt, t) ==
    /\ tasks' = [ts EXCEPT ![t] = Fetching(@, "/download-models")]
    /\ net' = IF \E q \in nt : q.url = "/download-models" THEN nt
              ELSE nt \cup {Request(t, "/download-models", "POST", googleDriveUrl)}
    /\ UNCHANGED lastDone

\* fetch(`${this.apiUrl}/download-models`, ...) of init()
SendDownload(ts, nt, t) ==
    /\ tasks' = [ts EXCEPT ![t] = Fetching(@, "/download-models")]
    /\ net' = nt \cup {Request(t, "/download-models", "POST", googleDriveUrl)}
    /\ UNCHANGED lastDone

\* fetch(`${this.apiUrl}/suggest`, ...) of suggest(); fetch(`${API_URL}/suggest`,
\* ...) of suggestRecipes
SendSuggest(ts, nt, t) ==
    /\ tasks' = [ts EXCEPT ![t] = Fetching(@, "/suggest")]
    /\ net' = nt \cup {Request(t, "/suggest", "POST", ts[t].query)}
    /\ UNCHANGED lastDone

\* init() has returned true to task t.
InitReturned(ts, nt, t) ==
    CASE ts[t].kind = "load" ->
            /\ Complete(ts, nt, t, "ok", <<>>)
            /\ loaded' = "ok"
            /\ buttonDisabled' = LoadSucceeded.disabled
            /\ results' = LoadSucceeded.results
            /\ listening' = TRUE
            /\ UNCHANGED buttonText
      [] ts[t].kind = "init" ->
            /\ Complete(ts, nt, t, "ok", <<>>)
            /\ UNCHANGED <<page, loaded>>
      [] ts[t].kind \in {"suggest", "click"} ->
            /\ SendSuggest(ts, nt, t)
            /\ UNCHANGED <<page, loaded>>

\* init() has thrown to task t.
InitThrew(ts, nt, t, msg) ==
    CASE ts[t].kind = "load" ->
            /\ Complete(ts, nt, t, "error", msg)
            /\ loaded' = "failed"
            /\ results' = LoadFailed(msg).results
            /\ buttonDisabled' = LoadFailed(msg).disabled
            /\ listening' = TRUE
            /\ UNCHANGED buttonText
      [] ts[t].kind \in {"init", "suggest"} ->
            /\ Complete(ts, nt, t, "error", msg)
            /\ UNCHANGED <<page, loaded>>
      [] ts[t].kind = "click" ->
            /\ ClickCaught(ts, nt, t, msg)
            /\ UNCHANGED loaded

\* suggest() has returned recipes to task t.
SuggestReturned(ts, nt, t, recipes) ==
    CASE ts[t].kind = "suggest" ->
            /\ Complete(ts, nt, t, "ok", <<>>)
            /\ UNCHANGED page
      [] ts[t].kind = "click" ->
            LET d == displayResultsApp(recipes, results)
            IN  IF d.thrown THEN ClickCaught(ts, nt, t, d.msg)
                ELSE /\ Complete(ts, nt, t, "ok", <<>>)
                     /\ results' = d.html
                     /\ buttonDisabled' = ClickFinally.disabled
                     /\ buttonText' = ClickFinally.text
                     /\ UNCHANGED listening

\* suggest() has thrown to task t.
SuggestThrew(ts, nt, t, msg) ==
    CASE ts[t].kind = "suggest" ->
            /\ Complete(ts, nt, t, "error", msg)
            /\ UNCHANGED page
      [] ts[t].kind = "click" -> ClickCaught(ts, nt, t, msg)

CallSuggestUnguarded(ts, nt, t) == SendSuggest(ts, nt, t)

\* suggest(ingredients) called by task t, up to its first request:
\* if (!this.initialized) await this.init()
CallSuggest(ts, nt, t) ==
    IF ~initialized THEN SendHealth(ts, nt, t) ELSE SendSuggest(ts, nt, t)

---------------------------------------------------------------------------
(* part_000: events and calls *)

\* DOMContentLoaded: the loading message, then await recommender.init().
AppDOMContentLoaded ==
    /\ variant = "app" /\ loaded = "no" /\ ~alertOpen
    /\ CanSpawn
    /\ LET ts == Spawn("load", <<>>)
       IN  IF initialized THEN InitReturned(ts, net, NewSlot)
           ELSE /\ SendHealth(ts, net, NewSlot)
                /\ loaded' = "running"
                /\ results' = <<InitLoadingNode>>
                /\ UNCHANGED <<buttonDisabled, buttonText, listening>>
    /\ UNCHANGED <<env, initialized, alertOpen, seen, newest>>

\* The click listener of part_000, the input field holding value.
AppClickHandler(value) ==
    LET ingredients == Trim(value)
    IN  IF ~Truthy(ingredients)
        THEN /\ alertOpen' = TRUE
             /\ UNCHANGED <<env, loaded, initialized, tasks, lastDone, net, page,
                            seen, newest>>
        ELSE /\ CanSpawn
             /\ buttonDisabled' = SubmitStart.disabled
             /\ buttonText' = SubmitStart.text
             /\ results' = SubmitStart.results
             /\ CallSuggest(Spawn("click", ingredients), net, NewSlot)
             /\ newest' = NewSlot
             /\ UNCHANGED <<env, loaded, initialized, listening, alertOpen, seen>>

\* A click on the button: a disabled button dispatches no click event.
AppClick(value) ==
    /\ variant = "app" /\ listening /\ ~alertOpen
    /\ ~buttonDisabled
    /\ AppClickHandler(value)

\* The keypress listener: Enter clicks the button unless it is disabled.
AppKeypress(key, value) ==
    /\ variant = "app" /\ listening /\ ~alertOpen
    /\ key = "Enter" /\ ~buttonDisabled
    /\ AppClickHandler(value)

\* The user closes the alert; the handler that opened it returns.
DismissAlert ==
    /\ alertOpen
    /\ alertOpen' = FALSE
    /\ UNCHANGED <<env, loaded, initialized, tasks, lastDone, net, page, seen, newest>>

\* recommender.init() called from outside the handlers: recommender is a
\* global of the page, and its methods are the operations of the client.
DirectInit ==
    /\ variant = "app" /\ ~alertOpen
    /\ CanSpawn
    /\ LET ts == Spawn("init", <<>>)
       IN  IF initialized THEN InitReturned(ts, net, NewSlot)
           ELSE SendHealth(ts, net, NewSlot) /\ UNCHANGED <<page, loaded>>
    /\ UNCHANGED <<env, initialized, alertOpen, seen, newest>>

DirectQueries == {<<"a">>}

\* recommender.suggest(query) called from outside the handlers.
DirectSuggest(query) ==
    /\ variant = "app" /\ ~alertOpen
    /\ CanSpawn
    /\ CallSuggest(Spawn("suggest", query), net, NewSlot)
    /\ UNCHANGED <<env, loaded, initialized, page, alertOpen, seen, newest>>

\* init() resumed in task t with the outcome o of the response it awaited.
InitStep(ts, nt, t, o) ==
    CASE o.step = "return" ->
            initialized' = TRUE /\ InitReturned(ts, nt, t)
      [] o.step = "throw" ->
            UNCHANGED initialized /\ InitThrew(ts, nt, t, o.msg)
      [] o.step = "download" ->
            /\ UNCHANGED <<initialized, page, loaded>>
            /\ SendDownload(ts, nt, t)

\* The /health response r reaches init(), called by task t.
OnHealthResponse(t, r) ==
    /\ Awaiting(t, "/health") /\ ~alertOpen
    /\ InitStep(tasks, net \ InFlight(t, "/health"), t, InitOnHealth(r))
    /\ sawHealthReady' = (sawHealthReady \/ ReportsReady(r))
    /\ newest' = NewestAfter
    /\ UNCHANGED <<env, alertOpen, sawDownloadSuccess>>

\* The /download-models response r reaches init(), called by task t.
OnDownloadResponse(t, r) ==
    /\ Awaiting(t, "/download-models") /\ ~alertOpen
    /\ InitStep(tasks, net \ InFlight(t, "/download-models"), t, InitOnDownload(r))
    /\ sawDownloadSuccess' = (sawDownloadSuccess \/ ReportsSuccess(r))
    /\ newest' = NewestAfter
    /\ UNCHANGED <<env, alertOpen, sawHealthReady>>

\* The /suggest response r reaches suggest(), called by task t.
OnSuggestResponse(t, r) ==
    /\ variant = "app" /\ ~alertOpen
    /\ Awaiting(t, "/suggest")
    /\ LET nt == net \ InFlight(t, "/suggest")
           o == SuggestOnResponse(r)
       IN  IF o.step = "return"
           THEN SuggestReturned(tasks, nt, t, o.value)
           ELSE SuggestThrew(tasks, nt, t, o.msg)
    /\ newest' = NewestAfter
    /\ UNCHANGED <<env, loaded, initialized, alertOpen, seen>>

---------------------------------------------------------------------------
(* script.js *)

\* DOMContentLoaded: loadModels() is called first; neither source file
\* defines it, so the call throws a ReferenceError and the listener is not
\* registered unless the page defines loadModels elsewhere.
ScriptDOMContentLoaded ==
    /\ variant = "script" /\ loaded = "no" /\ ~alertOpen
    /\ loaded' = IF loadModelsDefined THEN "ok" ELSE "failed"
    /\ listening' = loadModelsDefined
    /\ UNCHANGED <<env, initialized, tasks, lastDone, net, results,
                   buttonDisabled, buttonText, alertOpen, seen, newest>>

\* suggestRecipes, the input field holding value: the request carries the
\* input untrimmed.
suggestRecipes(value) ==
    IF ~Truthy(Trim(value))
    THEN /\ alertOpen' = TRUE
         /\ UNCHANGED <<env, loaded, initialized, tasks, lastDone, net, page, seen, newest>>
    ELSE /\ CanSpawn
         /\ results' = <<ScriptLoadingNode>>
         /\ SendSuggest(Spawn("script", value), net, NewSlot)
         /\ newest' = NewSlot
         /\ UNCHANGED <<env, loaded, initialized, buttonDisabled, buttonText,
                        listening, alertOpen, seen>>

ScriptCatchAppend(d) == Append(d.html, ScriptErrorNode(d.msg))

\* The catch block of suggestRecipes, d being what the try block left in
\* the results area and the error it threw: innerHTML is assigned.
ScriptCatch(d) == <<ScriptErrorNode(d.msg)>>

\* A click on the button.
ScriptClick(value) ==
    /\ variant = "script" /\ listening /\ ~alertOpen
    /\ ~buttonDisabled
    /\ suggestRecipes(value)

\* The /suggest response r reaches suggestRecipes, task t.
ScriptOnSuggestResponse(t, r) ==
    /\ variant = "script" /\ ~alertOpen
    /\ Awaiting(t, "/suggest")
    /\ LET o == ScriptOnResponse(r)
           d == IF o.step = "return" THEN displayResultsScript(o.value, results)
                ELSE Thrown(results, o.msg)
           nt == net \ InFlight(t, "/suggest")
       IN  /\ results' = IF d.thrown THEN ScriptCatch(d) ELSE d.html
           /\ IF d.thrown THEN Complete(tasks, nt, t, "error", d.msg)
              ELSE Complete(tasks, nt, t, "ok", <<>>)
    /\ newest' = NewestAfter
    /\ UNCHANGED <<env, loaded, initialized, buttonDisabled, buttonText,
                   listening, alertOpen, seen>>

---------------------------------------------------------------------------

Keys == {"Enter", "a"}

Next ==
    \/ AppDOMContentLoaded
    \/ \E v \in InputValues : AppClick(v)
    \/ \E k \in Keys, v \in InputValues : AppKeypress(k, v)
    \/ DismissAlert
    \/ DirectInit
    \/ \E q \in DirectQueries : DirectSuggest(q)
    \/ \E t \in Slots, r \in HealthResponses : OnHealthResponse(t, r)
    \/ \E t \in Slots, r \in DownloadResponses : OnDownloadResponse(t, r)
    \/ \E t \in Slots, r \in SuggestResponses : OnSuggestResponse(t, r)
    \/ ScriptDOMContentLoaded
    \/ \E v \in InputValues : ScriptClick(v)
    \/ \E t \in Slots, r \in SuggestResponses : ScriptOnSuggestResponse(t, r)

Spec == Init /\ [][Next]_vars

\* The /suggest request of a run of the click handler is answered or fails,
\* and the event loop then resumes the run.
ClickAnswered ==
    \E t \in Slots, r \in SuggestResponses :
       tasks[t].kind = "click" /\ OnSuggestResponse(t, r)

\* Requests are answered or fail: the fetch of a run of the click handler
\* does not stay pending for ever.
LiveSpec == Spec /\ WF_vars(ClickAnswered)

---------------------------------------------------------------------------
(* Properties *)

Count(seq, x) == Cardinality({i \in DOMAIN seq : seq[i] = x})
Has(seq, x) == Count(seq, x) > 0

\* A step resumes task t, which awaited the response to url.
Resumed(t, url) == Awaiting(t, url) /\ tasks'[t] # tasks[t]

\* The record of task t after a step: its slot, or lastDone if it completed.
After(t) == IF tasks'[t].kind = "idle" THEN lastDone' ELSE tasks'[t]

\* The calls under way and the call completed last.
Records == {tasks[t] : t \in {u \in Slots : Live(u)}} \cup {lastDone}

\* C1: in both variants, a click (or Enter key press) handled while the
\* input is empty or all whitespace opens the alert and changes nothing
\* else: no task is started (suggest is not invoked), no request is issued,
\* the results area and the button are left as they were.
C1_BlankInputRejected ==
    [][\A v \in InputValues :
          (/\ Blank(v)
           /\ \/ AppClick(v)
              \/ \E k \in Keys : AppKeypress(k, v)
              \/ ScriptClick(v))
          => /\ alertOpen'
             /\ UNCHANGED <<tasks, lastDone, net, results, buttonDisabled,
                            buttonText, initialized>>]_vars

\* A page of part_000 whose alert is open after the system was ready.
C1_Witness_BlankAlert ==
    alertOpen /\ variant = "app" /\ net = {} /\ results # StaticMarkup

\* The /health responses that report ready, and the parsed ones that do not.
ReadyResponses == {r \in HealthResponses : ReportsReady(r)}
NotReadyResponses ==
    {r \in HealthResponses : ~r.failed /\ r.parsed /\ ~ReportsReady(r)}

\* The 2xx /download-models responses that report success.
SuccessResponses == {r \in DownloadResponses : ReportsSuccess(r) /\ ResponseOk(r)}

\* C2: a /health response {status: "ok", models_loaded: true} reaching
\* init() makes it return with initialized = true, the call having issued no
\* /download-models request.
C2_ReadyHealthSkipsDownload ==
    [][\A t \in Slots :
          Resumed(t, "/health") =>
             \A r \in ReadyResponses :
                OnHealthResponse(t, r)
                => /\ initialized'
                   /\ After(t).result # "error"
                   /\ After(t).pc \in {"done", "/suggest"}
                   /\ ~Has(After(t).sent, "/download-models")
                   /\ \A q \in net' : q.url = "/download-models" => q \in net]_vars

\* A direct init() has returned after its /health request alone.
C2_Witness_ReadyInit ==
    /\ lastDone.kind = "init" /\ lastDone.result = "ok"
    /\ lastDone.sent = <<"/health">> /\ initialized /\ ~sawDownloadSuccess

\* C3: a /health body that does not report ready makes init() issue one
\* /download-models request, and a 2xx {success: true} response to it makes
\* init() return with initialized = true, the call having issued exactly one
\* /download-models request.
C3_NotReadyThenProvisioned ==
    [][\A t \in Slots :
          /\ Resumed(t, "/health") =>
                \A r \in NotReadyResponses :
                   OnHealthResponse(t, r)
                   => /\ After(t).pc = "/download-models"
                      /\ After(t).sent = <<"/health", "/download-models">>
                      /\ Cardinality({q \in net' : q.owner = t
                                        /\ q.url = "/download-models"}) = 1
                      /\ UNCHANGED initialized
          /\ Resumed(t, "/download-models") =>
                \A r \in SuccessResponses :
                   OnDownloadResponse(t, r)
                   => /\ initialized'
                      /\ After(t).result # "error"
                      /\ After(t).pc \in {"done", "/suggest"}
                      /\ Count(After(t).sent, "/download-models") = 1]_vars

\* A direct init() has returned after /health and one /download-models.
C3_Witness_Provisioned ==
    /\ lastDone.kind = "init" /\ lastDone.result = "ok"
    /\ lastDone.sent = <<"/health", "/download-models">>
    /\ initialized /\ ~sawHealthReady

\* The /download-models response r is a failure of the provisioning step:
\* a non-2xx status, or a body with success false.
ProvisioningFailed(r) ==
    ~r.failed /\ (~ResponseOk(r) \/ (r.parsed /\ ~r.data.success))

FailedProvisionings == {r \in DownloadResponses : ProvisioningFailed(r)}

\* The body of r supplies a reason.
SuppliesReason(r) == r.parsed /\ IsSome(r.data.error) /\ Get(r.data.error) # ""

\* C4, as claimed: whenever the provisioning step fails, init() throws an
\* error whose message is data.error if the server supplied one (any
\* message counts as the generic fallback otherwise), and initialized is
\* false afterwards.
C4_Original_MessageIsServerReason ==
    [][\A t \in Slots :
          Resumed(t, "/download-models") =>
             \A r \in FailedProvisionings :
                OnDownloadResponse(t, r)
                => /\ After(t).result = "error"
                   /\ SuppliesReason(r) => After(t).msg = <<Get(r.data.error)>>
                   /\ ~initialized']_vars

\* C4, amended: on a non-2xx status init() throws "Erro ao baixar modelos: "
\* followed by the status text, without reading the body; on a 2xx body with
\* success false it throws data.error, or the fallback message when
\* data.error is absent or empty.  The failing call leaves initialized as it
\* was, and an init() called while initialized is false starts with the
\* /health request.
C4_ProvisioningFailureMessage ==
    [][/\ \A t \in Slots :
             Resumed(t, "/download-models") =>
                \A r \in FailedProvisionings :
                   OnDownloadResponse(t, r)
                   => /\ After(t).result = "error"
                      /\ After(t).pc = "done"
                      /\ UNCHANGED initialized
                      /\ After(t).msg =
                            IF ~ResponseOk(r)
                            THEN <<"Erro ao baixar modelos: ", StatusText(r.status)>>
                            ELSE IF SuppliesReason(r) THEN <<Get(r.data.error)>>
                            ELSE <<DownloadFallback>>
       /\ (~initialized /\ DirectInit)
             => /\ tasks'[NewSlot].pc = "/health"
                /\ tasks'[NewSlot].sent = <<"/health">>]_vars

\* A direct init() has failed with the reason the server supplied.
C4_Witness_ServerReason ==
    /\ lastDone.kind = "init" /\ lastDone.result = "error"
    /\ lastDone.msg = <<"quota exceeded">>
    /\ lastDone.sent = <<"/health", "/download-models">>
    /\ ~initialized

InitRequests(sent) == SelectSeq(sent, LAMBDA u : u # "/suggest")

C5_Requests ==
    /\ \A rec \in Records :
          /\ InitRequests(rec.sent)
                \in {<<>>, <<"/health">>, <<"/health", "/download-models">>}
          /\ rec.kind \in {"load", "init"} => ~Has(rec.sent, "/suggest")
    /\ \A q \in net :
          /\ q.url = "/health" => q.method = "GET"
          /\ q.url = "/download-models" => q.method = "POST"
    /\ \A t \in Slots : Cardinality({q \in net : q.owner = t}) <= 1
    /\ (lastDone.kind \in {"load", "init"} /\ lastDone.sent = <<>>) => initialized

\* C5: a call of init() issues no request when initialized is true; otherwise
\* it issues GET /health and then at most one POST /download-models, and no
\* request twice.
C5_InitRequestCount ==
    /\ []C5_Requests
    /\ [][(DirectInit \/ AppDOMContentLoaded)
             => IF initialized
                THEN /\ net' = net
                     /\ lastDone'.sent = <<>> /\ lastDone'.result = "ok"
                ELSE /\ tasks'[NewSlot].sent = <<"/health">>
                     /\ net' = net \cup {Request(NewSlot, "/health", "GET", <<>>)}]_vars

\* A direct init() called when initialized was true: it returned at once.
C5_Witness_NoopInit ==
    /\ lastDone.kind = "init" /\ lastDone.result = "ok" /\ lastDone.sent = <<>>
    /\ net = {}

NothingCalled == loaded = "no" /\ lastDone = Idle /\ \A t \in Slots : ~Live(t)

C6_Flag ==
    /\ NothingCalled => ~initialized
    /\ initialized => (sawHealthReady \/ sawDownloadSuccess)

\* C6: initialized is false before any call; it is true only if a /health
\* response has reported ok with models loaded or a /download-models
\* response has reported success; once true it stays true.
C6_ReadyFlag ==
    /\ []C6_Flag
    /\ [][initialized => initialized']_vars

\* The page load has set initialized through /download-models alone.
C6_Witness_SetByDownload ==
    /\ initialized /\ sawDownloadSuccess /\ ~sawHealthReady
    /\ lastDone.kind = "load" /\ loaded = "ok"

\* The messages init() can throw.
InitErrors ==
    {InitOnHealth(r).msg : r \in {x \in HealthResponses : InitOnHealth(x).step = "throw"}}
    \cup {InitOnDownload(r).msg :
             r \in {x \in DownloadResponses : InitOnDownload(x).step = "throw"}}

\* C7: suggest() sends /suggest only while initialized is true, after any
\* init() requests of the same call; a call of suggest() that has completed
\* without sending /suggest has failed with an error of init().
C7_SuggestAfterInit ==
    variant = "app" =>
       /\ \A q \in net : q.url = "/suggest" => initialized
       /\ \A rec \in Records :
             rec.kind \in {"suggest", "click"} =>
                /\ Has(rec.sent, "/suggest") =>
                      /\ initialized
                      /\ Count(rec.sent, "/suggest") = 1
                      /\ rec.sent[Len(rec.sent)] = "/suggest"
                /\ rec.pc \in {"/health", "/download-models"} =>
                      ~Has(rec.sent, "/suggest")
                /\ (rec.pc = "done" /\ ~Has(rec.sent, "/suggest")) =>
                      /\ rec.result = "error"
                      /\ Has(rec.sent, "/health")
                      /\ rec.msg \in InitErrors

\* A direct suggest() has failed in init(), having sent no /suggest.
C7_Witness_InitFailed ==
    /\ lastDone.kind = "suggest" /\ lastDone.result = "error"
    /\ lastDone.sent = <<"/health", "/download-models">>
    /\ ~initialized

\* The /suggest response r is a failure: no response, a non-2xx status, or a
\* body that is not JSON.
FailedResponse(r) == r.failed \/ ~ResponseOk(r) \/ ~r.parsed

\* The message the claim expects suggest() to fail with on r.
SuggestFailureMessage(r) ==
    IF r.failed THEN FetchFailure
    ELSE IF ~ResponseOk(r)
         THEN <<"HTTP ", StatusStr(r.status), ": ", StatusText(r.status)>>
    ELSE JsonFailure

NoCard(html) == \A i \in 1..Len(html) : ~IsCard(html[i])

FailedResponses == {r \in SuggestResponses : FailedResponse(r)}

\* C8: a submission answered by a failure ends with the results area
\* holding one error message and no recipe card, in both variants; suggest()
\* fails with the error, which on a non-2xx status carries the status code
\* and text.
C8_FailedSubmissionShowsError ==
    [][\A t \in Slots :
          Resumed(t, "/suggest") =>
             \A r \in FailedResponses :
                /\ OnSuggestResponse(t, r) =>
                      /\ lastDone'.result = "error"
                      /\ lastDone'.msg = SuggestFailureMessage(r)
                      /\ tasks[t].kind = "click" =>
                            /\ results' = <<AppErrorNode(SuggestFailureMessage(r))>>
                            /\ NoCard(results')
                /\ ScriptOnSuggestResponse(t, r) =>
                      /\ lastDone'.result = "error"
                      /\ Len(results') = 1 /\ IsError(results'[1])
                      /\ results'[1].text =
                            <<"Erro ao buscar receitas: ">> \o lastDone'.msg
                      /\ NoCard(results')]_vars

\* A submission of part_000 answered by HTTP 500 has ended with its error
\* message in the results area.
C8_Witness_Http500Shown ==
    /\ lastDone.kind = "click" /\ lastDone.result = "error"
    /\ results = <<AppErrorNode(<<"HTTP ", "500", ": ", "Internal Server Error">>)>>

NoUiTask == \A t \in Slots : tasks[t].kind \notin {"load", "click"}

\* C9, as claimed: whenever an attempt of the page (the initialization at
\* page load, or a submission) has failed and none is under way, the button
\* is enabled.
C9_Original_AlwaysReenabled ==
    (lastDone.kind \in {"load", "click"} /\ lastDone.result = "error" /\ NoUiTask)
    => ~buttonDisabled

\* C9, amended: after a failed submission the click handler of part_000
\* enables the button again and restores its label; after a failed
\* initialization at page load the button is disabled, and stays disabled.
C9_ReenabledAfterFailedSubmission ==
    variant = "app" =>
       /\ (lastDone.kind = "click" /\ lastDone.result = "error" /\ NoUiTask)
             => (~buttonDisabled /\ buttonText = "Sugerir Receitas")
       /\ loaded = "failed" => buttonDisabled

\* A submission has failed and the button is enabled again.
C9_Witness_FailedThenEnabled ==
    /\ lastDone.kind = "click" /\ lastDone.result = "error" /\ NoUiTask
    /\ ~buttonDisabled /\ IsError(results[1])

\* The /suggest requests in flight that a submission of the page issued.
SubmissionsInFlight ==
    {q \in net : q.url = "/suggest" /\ tasks[q.owner].kind \in {"click", "script"}}

\* C10, as claimed: in both variants, at most one /suggest request of the
\* page is in flight at any time.
C10_Original_OneSubmissionInFlight == Cardinality(SubmissionsInFlight) <= 1

\* The calls that are inside init(), awaiting the response to url.
InitCallers(url) == {t \in Slots : Awaiting(t, url)}

\* C11: init() is not guarded against overlapping calls: every call that is
\* inside init() has issued its own /health request and, once the service
\* has answered it not ready, its own /download-models request, whatever
\* the other calls under way have issued; so two callers that overlap while
\* initialized is false issue two /health and two /download-models requests.
C11_EveryCallerInitializes ==
    /\ \A t \in InitCallers("/health") :
          /\ Request(t, "/health", "GET", <<>>) \in net
          /\ tasks[t].sent = <<"/health">>
    /\ \A t \in InitCallers("/download-models") :
          /\ Request(t, "/download-models", "POST", googleDriveUrl) \in net
          /\ tasks[t].sent = <<"/health", "/download-models">>
    /\ \A url \in {"/health", "/download-models"} :
          Cardinality({q \in net : q.url = url}) = Cardinality(InitCallers(url))

\* Two calls have each issued /health and /download-models, both
\* /download-models requests are in flight and initialized is still false.
C11_Witness_TwoProvisionings ==
    /\ ~initialized
    /\ Cardinality(InitCallers("/download-models")) = 2
    /\ Cardinality({q \in net : q.url = "/download-models"}) = 2
    /\ \A t \in InitCallers("/download-models") :
          tasks[t].sent = <<"/health", "/download-models">>

\* The /suggest responses that carry a list of recipes.
ListResponses ==
    {r \in SuggestResponses : ~FailedResponse(r) /\ IsSome(r.data.recipes)}

\* A step in which a submission of the page handles the /suggest response r.
Answered(t, r) == OnSuggestResponse(t, r) \/ ScriptOnSuggestResponse(t, r)

\* Task t is a submission of the page.
IsSubmission(t) == tasks[t].kind \in {"click", "script"}

\* html is one card per recipe of rs, in the order of rs.
CardsOf(html, rs) ==
    /\ Len(html) = Len(rs)
    /\ \A i \in 1..Len(rs) :
          /\ IsCard(html[i])
          /\ html[i].title = Interp(rs[i].title)
          /\ html[i].match.num = rs[i].match

\* C12: in both variants, when displayResults has completed for the recipes
\* of a response, the results area holds exactly one card per recipe, in
\* the order of the list (the placeholder alone for the empty list), and
\* nothing of what it held before: no loading message, no error message, no
\* card of an earlier query.
C12_NewQueryReplacesList ==
    [][\A t \in Slots :
          (Resumed(t, "/suggest") /\ IsSubmission(t)) =>
             \A r \in ListResponses :
                (Answered(t, r) /\ lastDone'.result = "ok")
                => IF Get(r.data.recipes) = <<>>
                   THEN results' = <<NoResultsNode>>
                   ELSE CardsOf(results', Get(r.data.recipes))]_vars

\* script.js shows the two cards of a two-recipe list, in order.
C12_Witness_TwoCardsInOrder ==
    /\ variant = "script" /\ lastDone.kind = "script" /\ lastDone.result = "ok"
    /\ Len(results) = 2
    /\ results[1].title = "Omelete" /\ results[2].title = "Pudim"

\* html is what a handled submission may leave on the page for the response
\* r: one error message, or the placeholder for a response without recipes,
\* or the cards of all the recipes of r.
WholeOutcome(html, r) ==
    \/ Len(html) = 1 /\ IsError(html[1])
    \/ /\ ~FailedResponse(r)
       /\ IF IsSome(r.data.recipes) /\ Get(r.data.recipes) # <<>>
          THEN CardsOf(html, Get(r.data.recipes))
          ELSE html = <<NoResultsNode>>

\* C13: in both variants, a submission that has handled its response leaves
\* in the results area either one error message and nothing else, or the
\* placeholder, or the cards of all the recipes of the response: never
\* fewer cards than recipes, never a card next to an error message, also
\* when a recipe part-way through the list cannot be rendered.
C13_NoPartialResults ==
    [][\A t \in Slots :
          (Resumed(t, "/suggest") /\ IsSubmission(t)) =>
             \A r \in SuggestResponses :
                Answered(t, r)
                => /\ WholeOutcome(results', r)
                   /\ lastDone'.result = "error" <=> IsError(results'[1])]_vars

\* script.js has appended the first card of a list, failed on the null
\* entry that follows, and shows the error message alone.
C13_Witness_RenderFailedPartWay ==
    /\ variant = "script" /\ lastDone.kind = "script"
    /\ lastDone.result = "error" /\ lastDone.msg = NullAccess
    /\ results = <<ScriptErrorNode(NullAccess)>>

\* rec is a result that carries the two ingredient lists, under the names
\* the variant of the page reads.
CarriesLists(rec) ==
    /\ ~IsNull(rec)
    /\ IF variant = "app"
       THEN IsSome(rec.used_ingredients) /\ IsSome(rec.missing_ingredients)
       ELSE IsSome(rec.used) /\ IsSome(rec.missing)

CountCards(html) == Cardinality({i \in DOMAIN html : IsCard(html[i])})
Placeholder(html) == \E i \in DOMAIN html : html[i] = NoResultsNode

C15_Original_MissingFieldsOmitted ==
    [][\A t \in Slots :
          (Resumed(t, "/suggest") /\ IsSubmission(t)) =>
             \A r \in ListResponses :
                (/\ Answered(t, r)
                 /\ Get(r.data.recipes) # <<>>
                 /\ \A i \in 1..Len(Get(r.data.recipes)) :
                       ~IsNull(Get(r.data.recipes)[i]))
                => /\ lastDone'.result = "ok"
                   /\ CardsOf(results', Get(r.data.recipes))]_vars

\* C16, as claimed: the percentage shown on a recipe card lies within
\* 0..100, whatever match value the service sent.
C16_Original_MatchWithinRange ==
    \A i \in DOMAIN results :
       (IsCard(results[i]) /\ IsSome(results[i].match.num))
       => Get(results[i].match.num) \in 0..100

\* The texts of the items of a list of a card.
Texts(items) == [i \in 1..Len(items) |-> items[i].text]
\* The ingredients list, one text each, after prefix.
Each(prefix, list) == [i \in 1..Len(list) |-> prefix \o <<list[i]>>]

\* rec is a result under the field names of the data model of the
\* specification.
SpecNamed(rec) == ~IsNull(rec) /\ "matchPercent" \in DOMAIN rec

\* C17, as claimed: the card rendered for a result with the fields
\* matchPercent, usedIngredients and missingIngredients shows matchPercent
\* followed by "%", exactly the used ingredients in the "have" list and
\* exactly the missing ingredients in the "need to buy" list.
C17_Original_SpecNamedRoundTrip ==
    [][\A t \in Slots :
          (Resumed(t, "/suggest") /\ IsSubmission(t)) =>
             \A r \in ListResponses :
                LET rs == Get(r.data.recipes)
                IN  (/\ Answered(t, r)
                     /\ rs # <<>>
                     /\ \A i \in 1..Len(rs) : SpecNamed(rs[i])
                     /\ lastDone'.result = "ok")
                    => /\ Len(results') = Len(rs)
                       /\ \A i \in 1..Len(rs) :
                             /\ IsCard(results'[i])
                             /\ results'[i].match.num = rs[i].matchPercent
                             /\ Texts(results'[i].have)
                                   = Each(<<>>, Get(rs[i].usedIngredients))
                             /\ Texts(results'[i].buy)
                                   = Each(<<>>, Get(rs[i].missingIngredients))]_vars

\* The card of rec shows the ingredients of part_000's field names.
RoundTripApp(card, rec) ==
    /\ card.match = [num |-> rec.match, suffix |-> "% compativel"]
    /\ Texts(card.have) =
          IF Get(rec.used_ingredients) # <<>>
          THEN Each(<<>>, Get(rec.used_ingredients))
          ELSE <<(<<"Nenhum ingrediente principal">>)>>
    /\ Texts(card.buy) =
          IF Get(rec.missing_ingredients) # <<>>
          THEN Each(<<>>, Get(rec.missing_ingredients))
          ELSE <<(<<"Nada!">>)>>

\* The card of rec shows the ingredients of script.js's field names.
RoundTripScript(card, rec) ==
    /\ card.match = [num |-> rec.match, suffix |-> "%"]
    /\ Texts(card.have) = Each(<<"v ">>, Get(rec.used))
    /\ Texts(card.buy) = Each(<<"x ">>, Get(rec.missing))

\* C17, amended: a result with the fields match, used_ingredients and
\* missing_ingredients (part_000), or match, used and missing (script.js),
\* is rendered as a card showing match followed by "%", the used
\* ingredients, each once and in order, in the "have" list and the missing
\* ingredients in the "need to buy" list, none in the other list; script.js
\* puts a mark in front of each ingredient, and part_000 shows one fallback
\* item in place of an empty list.
C17_WireNamedRoundTrip ==
    [][\A t \in Slots :
          (Resumed(t, "/suggest") /\ IsSubmission(t)) =>
             \A r \in ListResponses :
                LET rs == Get(r.data.recipes)
                IN  (/\ Answered(t, r)
                     /\ rs # <<>>
                     /\ \A i \in 1..Len(rs) : CarriesLists(rs[i]))
                    => /\ Len(results') = Len(rs)
                       /\ \A i \in 1..Len(rs) :
                             /\ IsCard(results'[i])
                             /\ \A j \in DOMAIN results'[i].have :
                                   results'[i].have[j].cls \in {"ingredient has", ""}
                             /\ \A j \in DOMAIN results'[i].buy :
                                   results'[i].buy[j].cls \in {"ingredient missing", ""}
                             /\ IF variant = "app"
                                THEN RoundTripApp(results'[i], rs[i])
                                ELSE RoundTripScript(results'[i], rs[i])]_vars

\* part_000 shows the card of a result with match 87, used_ingredients egg
\* and flour, missing_ingredients sugar.
C17_Witness_Card87 ==
    /\ variant = "app" /\ Len(results) = 1 /\ IsCard(results[1])
    /\ results[1].match = [num |-> Some(87), suffix |-> "% compativel"]
    /\ Texts(results[1].have) = <<(<<"egg">>), (<<"flour">>)>>
    /\ Texts(results[1].buy) = <<(<<"sugar">>)>>

\* C18, as claimed: in both variants, when a submission has handled its
\* response (and written its outcome to the results area) and no submission
\* is left in flight, that submission is the one made last.
C18_Original_LatestQueryWins ==
    [][\A t \in Slots :
          (Resumed(t, "/suggest") /\ IsSubmission(t) /\ ~SubmissionLive(tasks'))
          => t = newest]_vars

\* C20, as claimed: in script.js, once the DOMContentLoaded handler has run,
\* suggestRecipes is registered as the click listener of the button.
C20_Original_ListenerRegistered ==
    (variant = "script" /\ loaded # "no") => listening

\* The results area shows an outcome of a submission: one error message,
\* the placeholder, or recipe cards.
ShowsOutcome(html) ==
    \/ Len(html) = 1 /\ IsError(html[1])
    \/ html = <<NoResultsNode>>
    \/ html # <<>> /\ \A i \in DOMAIN html : IsCard(html[i])

\* A run of the click handler of part_000 is under way in slot t: it has
\* disabled the button and set its label to "Buscando...".
ClickUnderWay(t) ==
    /\ tasks[t].kind = "click"
    /\ buttonDisabled /\ buttonText = "Buscando..."

ClickSettled ==
    /\ ~buttonDisabled /\ buttonText = "Sugerir Receitas"
    /\ ShowsOutcome(results)

\* C19: if every request is answered or fails, every submission the click
\* handler of part_000 has accepted is followed by a state in which the
\* results area shows cards, the placeholder or an error message and the
\* button is enabled and labelled "Sugerir Receitas".
C19_SubmissionSettles ==
    (\E t \in Slots : ClickUnderWay(t)) ~> ClickSettled

\* A submission has ended with cards on the page and the button restored.
C19_Witness_CardsAndButtonRestored ==
    /\ lastDone.kind = "click" /\ lastDone.result = "ok"
    /\ ~buttonDisabled /\ buttonText = "Sugerir Receitas"
    /\ Len(results) = 2 /\ IsCard(results[2])

====
